---------------------------- MODULE Spec2Model ----------------------------
(***************************************************************************)
(* A model of the three.js atmosphere demo (class Demo, the variant with   *)
(* custom pointer/wheel/keyboard controls and view presets).               *)
(*                                                                         *)
(* Numbers.  JavaScript numbers are modelled in exact arithmetic:          *)
(*   - angles are integers counting microradians (kMicro per radian);      *)
(*     Math.PI is the microradian count of the double 3.141592653589793;   *)
(*   - distances and exposure are rationals written as a sign and the      *)
(*     exponents of the primes 2, 3, 5, 7, 11 (every literal of the        *)
(*     program, 1.05 = 21/20 and 1.1 = 11/10 included, is such a number),  *)
(*     so products and quotients are exact and never overflow;             *)
(*   - a vector built from sines and cosines is held as the arguments it   *)
(*     was built from (radius, zenith, azimuth): two such vectors are      *)
(*     equal when they were computed from the same arguments.              *)
(* IEEE-754 rounding, overflow and underflow are not modelled.             *)
(*                                                                         *)
(* Scheduling.  The browser delivers events one at a time; a promise       *)
(* continuation (a microtask) runs before the next event is delivered.     *)
(***************************************************************************)
EXTENDS Integers, Sequences, FiniteSets, TLC

(***************************************************************************)
(* Bounds of the model.                                                    *)
(***************************************************************************)
MaxZoom == 1
MaxExposureSteps == 1
MaxAzimuth == 4
MaxWheelSteps == 2

(***************************************************************************)
(* Exact positive-or-not rationals: [s |-> sign, p |-> exponents].         *)
(***************************************************************************)
Primes == <<2, 3, 5, 7, 11>>

RECURSIVE Multiplicity(_, _)
Multiplicity(n, q) == IF n % q = 0 THEN 1 + Multiplicity(n \div q, q) ELSE 0

Sign(n) == IF n > 0 THEN 1 ELSE IF n < 0 THEN -1 ELSE 0

Abs(n) == IF n < 0 THEN -n ELSE n

\* The rational n, for an integer n whose prime factors are all in Primes.
Num(n) ==
    [s |-> Sign(n),
     p |-> [i \in 1..Len(Primes) |->
              IF n = 0 THEN 0 ELSE Multiplicity(Abs(n), Primes[i])]]

QMul(a, b) ==
    [s |-> a.s * b.s,
     p |-> [i \in 1..Len(Primes) |->
              IF a.s * b.s = 0 THEN 0 ELSE a.p[i] + b.p[i]]]

\* a / b for b # 0 (JavaScript gives Infinity or NaN for b = 0; no divisor
\* of the program is 0).
QDiv(a, b) ==
    [s |-> a.s * b.s,
     p |-> [i \in 1..Len(Primes) |->
              IF a.s * b.s = 0 THEN 0 ELSE a.p[i] - b.p[i]]]

Frac(n, d) == QDiv(Num(n), Num(d))

RECURSIVE QPow(_, _)
QPow(a, n) == IF n = 0 THEN Num(1) ELSE QMul(a, QPow(a, n - 1))

(***************************************************************************)
(* Angles in microradians.                                                 *)
(***************************************************************************)
kMicro == 1000 * 1000

PI == 3141592

HALF_PI == PI \div 2

Max(a, b) == IF a >= b THEN a ELSE b

Min(a, b) == IF a <= b THEN a ELSE b

\* A decimal literal of the program with three digits after the point,
\* given in thousandths: Rad(1470) is 1.47.
Rad(thousandths) == thousandths * (kMicro \div 1000)

(***************************************************************************)
(* Program constants.                                                      *)
(***************************************************************************)
TRANSMITTANCE_TEXTURE_WIDTH == 256
TRANSMITTANCE_TEXTURE_HEIGHT == 64
SCATTERING_TEXTURE_WIDTH == 256
SCATTERING_TEXTURE_HEIGHT == 128
SCATTERING_TEXTURE_DEPTH == 32
IRRADIANCE_TEXTURE_WIDTH == 64
IRRADIANCE_TEXTURE_HEIGHT == 16
kLengthUnitInMeters == 1000
kScale == 500
BYTES_PER_ELEMENT == 4

Files == {"transmittance", "scattering", "irradiance"}

\* Number of 32-bit floats the texture built for `file` is declared to hold:
\* width x height x (depth or 1) texels of 4 channels.
ExpectedElements(file) ==
    CASE file = "transmittance" ->
           TRANSMITTANCE_TEXTURE_WIDTH * TRANSMITTANCE_TEXTURE_HEIGHT * 4
      [] file = "scattering" ->
           SCATTERING_TEXTURE_WIDTH * SCATTERING_TEXTURE_HEIGHT
             * SCATTERING_TEXTURE_DEPTH * 4
      [] file = "irradiance" ->
           IRRADIANCE_TEXTURE_WIDTH * IRRADIANCE_TEXTURE_HEIGHT * 4

(***************************************************************************)
(* Vectors.                                                                *)
(***************************************************************************)
\* THREE.Vector3(x, y, z) from literal coordinates.
Vector3(x, y, z) == [tag |-> "xyz", x |-> x, y |-> y, z |-> z]

\* The vector (r sin(zen) cos(az), r sin(zen) sin(az), r cos(zen)).
Spherical(r, zen, az) == [tag |-> "spherical", r |-> r, zen |-> zen, az |-> az]

\* x^2 + y^2 + z^2 of a vector built by Spherical: r^2, since
\* sin^2 + cos^2 = 1.
SquaredNorm(v) == QMul(v.r, v.r)

Origin == Vector3(Num(0), Num(0), Num(0))

(***************************************************************************)
(* State.                                                                  *)
(***************************************************************************)
VARIABLES
    extensions,               \* renderer.extensions: what the WebGL context supports
    pc,                       \* where init() stands: loading, running, failed
    loads,                    \* the three fetch chains handed to Promise.all
    textures,                 \* the data textures, once created
    material,                 \* <<>> is null; else <<the uniforms that vary>>
    camera,                   \* position, lookAt target, position looked from
    windowListeners,          \* resize and keypress listeners registered
    animationLoop,            \* render registered with setAnimationLoop
    sunZenithAngleRadians,
    sunAzimuthAngleRadians,
    viewZenithAngleRadians,
    viewAzimuthAngleRadians,
    viewDistanceMeters,
    drag,
    previousMouseX,
    previousMouseY,
    lastEvent,                \* log of the callback that ran last
    zoomSteps,                \* history: net wheel steps since distance was set
    exposureSteps,            \* history: net +/- presses since exposure was set
    wheelRuns                 \* history: the last runs of same-direction wheel events

vars == <<extensions, pc, loads, textures, material, camera, windowListeners,
          animationLoop, sunZenithAngleRadians, sunAzimuthAngleRadians,
          viewZenithAngleRadians, viewAzimuthAngleRadians, viewDistanceMeters,
          drag, previousMouseX, previousMouseY, lastEvent, zoomSteps,
          exposureSteps, wheelRuns>>

sceneVars == <<extensions, pc, loads, textures, windowListeners, animationLoop>>

sunVars == <<sunZenithAngleRadians, sunAzimuthAngleRadians>>

viewVars == <<viewZenithAngleRadians, viewAzimuthAngleRadians,
              viewDistanceMeters>>

pointerVars == <<drag, previousMouseX, previousMouseY>>

historyVars == <<zoomSteps, exposureSteps, wheelRuns>>

\* History: the empty run of wheel events that starts when the view distance
\* is assigned outright (setupControls, setView).
NoRun(distance) == [dir |-> 0, n |-> 0, from |-> distance]

\* The log entry of a callback: what ran, with what input, and what it did
\* besides changing the fields above (replaced: the view and sun fields
\* that init() found and overwrote).
Event(type) ==
    [type |-> type, key |-> "", ctrlKey |-> FALSE, deltaY |-> 0,
     offsetX |-> 0, offsetY |-> 0, threw |-> FALSE,
     defaultPrevented |-> FALSE, draws |-> 0, drawn |-> <<>>,
     replaced |-> <<>>]

\* The log entry of a pointer callback, with the event's position.
PointerEvent(type, offsetX, offsetY) ==
    [Event(type) EXCEPT !.offsetX = offsetX, !.offsetY = offsetY]

(***************************************************************************)
(* Construction: the constructor, and init() up to its await.              *)
(***************************************************************************)
\* setupCamera: position.set(0, -9, 0.9); lookAt(0, 0, 0).
setupCamera ==
    [position |-> Vector3(Num(0), Num(-9), Frac(9, 10)),
     target |-> Origin,
     lookedFrom |-> Vector3(Num(0), Num(-9), Frac(9, 10))]

\* The extension loadTextures asks the renderer for.
OES_texture_float_linear == "OES_texture_float_linear"

\* WebGL contexts setupRenderer may get: with and without the extension.
Contexts == SUBSET {OES_texture_float_linear}

\* The state after new Demo(container) in a context of `contexts`.
Start(contexts) ==
    /\ extensions \in contexts
    /\ pc = "loading"
    /\ loads = [f \in Files |-> [state |-> "pending", elements |-> 0]]
    /\ textures = <<>>
    /\ material = <<>>
    /\ camera = setupCamera
    /\ windowListeners = FALSE
    /\ animationLoop = FALSE
    /\ sunZenithAngleRadians = Rad(1300)
    /\ sunAzimuthAngleRadians = Rad(2900)
    /\ viewZenithAngleRadians = Rad(1470)
    /\ viewAzimuthAngleRadians = Rad(0)
    /\ viewDistanceMeters = Num(9000)
    /\ drag = "undefined"
    /\ previousMouseX = 0
    /\ previousMouseY = 0
    /\ lastEvent = Event("constructor")
    /\ zoomSteps = 0
    /\ exposureSteps = 0
    /\ wheelRuns = <<NoRun(Num(9000))>>

\* A context with linear filtering of float textures.
Init == Start({{OES_texture_float_linear}})

(***************************************************************************)
(* The event loop.                                                         *)
(***************************************************************************)
\* Mutant: Promise.allSettled in place of Promise.all.
AllSettled == \A f \in Files : loads[f].state # "pending"

AllFulfilled == \A f \in Files : loads[f].state = "fulfilled"

SomeRejected == \E f \in Files : loads[f].state = "rejected"

\* Promise.all has settled and the continuation of init() has not run yet:
\* it runs before any further event is delivered.
MicrotaskPending == pc = "loading" /\ (AllFulfilled \/ SomeRejected)

(***************************************************************************)
(* loadTextures: one fetch chain per file.                                 *)
(***************************************************************************)
\* new Float32Array(buffer): a view of byteLength / 4 elements; a RangeError
\* when byteLength is not a multiple of 4.  -1 stands for the throw.
Float32ArrayLength(byteLength) ==
    IF byteLength % BYTES_PER_ELEMENT = 0
      THEN byteLength \div BYTES_PER_ELEMENT
      ELSE -1

\* fetch(file).then(res => res.arrayBuffer()).then(buffer => new
\* Float32Array(buffer)) settles: rejected on a network error (ok = FALSE) or
\* a throw of the constructor, else fulfilled with the array.
FetchChain(ok, byteLength) ==
    IF ok /\ Float32ArrayLength(byteLength) >= 0
      THEN [state |-> "fulfilled", elements |-> Float32ArrayLength(byteLength)]
      ELSE [state |-> "rejected", elements |-> 0]

FetchSettle(file, ok, byteLength) ==
    /\ ~MicrotaskPending
    /\ loads[file].state = "pending"
    /\ loads' = [loads EXCEPT ![file] = FetchChain(ok, byteLength)]
    /\ lastEvent' = Event("fetch")
    /\ UNCHANGED <<extensions, pc, textures, material, camera, windowListeners,
                   animationLoop, sunVars, viewVars, pointerVars, historyVars>>

\* texture.internalFormat: the transmittance texture's depends on
\* renderer.extensions.has('OES_texture_float_linear'); the scattering and
\* irradiance textures' is the literal 'RGBA16F'.
InternalFormat(f) ==
    IF f = "transmittance"
      THEN IF OES_texture_float_linear \in extensions
             THEN "RGBA32F" ELSE "RGBA16F"
      ELSE "RGBA16F"

\* The textures loadTextures creates once Promise.all is fulfilled: each
\* wraps the decoded array, whatever its length, with the fixed dimensions.
CreateTextures ==
    [f \in Files |->
       [elements |-> loads[f].elements, declared |-> ExpectedElements(f),
        internalFormat |-> InternalFormat(f), type |-> "FloatType",
        magFilter |-> "LinearFilter", minFilter |-> "LinearFilter"]]

(***************************************************************************)
(* Derived render state.                                                   *)
(***************************************************************************)
\* Mutant: the view distance is used in meters, not in length units.
PlaceCamera_InMeters(viewDistance, viewZenith, viewAzimuth) ==
    LET position == Spherical(viewDistance, viewZenith, viewAzimuth)
    IN  [position |-> position, target |-> Origin, lookedFrom |-> position]

\* camera.position.set(x, y, z) from the view triple; camera.lookAt(0, 0, 0).
PlaceCamera(viewDistance, viewZenith, viewAzimuth) ==
    LET distance == QDiv(viewDistance, Num(kLengthUnitInMeters))
        position == Spherical(distance, viewZenith, viewAzimuth)
    IN  [position |-> position, target |-> Origin, lookedFrom |-> position]

\* Mutant: the vector is built from the constructor's sun angles.
SunDirection_ConstructorAngles(sunZenith, sunAzimuth) ==
    Spherical(Num(1), Rad(1300), Rad(2900))

\* new THREE.Vector3(sin z cos a, sin z sin a, cos z).
SunDirection(sunZenith, sunAzimuth) == Spherical(Num(1), sunZenith, sunAzimuth)

\* setupScene: the material's uniforms that the handlers write.
setupScene ==
    <<[exposure |-> Num(10),
       sun_direction |-> SunDirection(sunZenithAngleRadians,
                                      sunAzimuthAngleRadians)]>>

\* setView, writing the uniforms of the material `mat` (a non-null material).
setView(mat, viewDistance, viewZenith, viewAzimuth, sunZenith, sunAzimuth, exposure) ==
    /\ viewDistanceMeters' = viewDistance
    /\ viewZenithAngleRadians' = viewZenith
    /\ viewAzimuthAngleRadians' = viewAzimuth
    /\ sunZenithAngleRadians' = sunZenith
    /\ sunAzimuthAngleRadians' = sunAzimuth
    /\ camera' = PlaceCamera(viewDistance, viewZenith, viewAzimuth)
    /\ material' = <<[mat[1] EXCEPT
                        !.sun_direction = SunDirection(sunZenith, sunAzimuth),
                        !.exposure = exposure]>>
    /\ zoomSteps' = 0
    /\ exposureSteps' = 0
    /\ wheelRuns' = <<NoRun(viewDistance)>>

\* The literal tuples of onKeyPress, keys '1' to '9'.
PresetKeys == {"1", "2", "3", "4", "5", "6", "7", "8", "9"}

\* Mutant: key '1' with the sun's two angles in the other order.
Preset_SwappedSun(key) ==
    <<Num(9000), Rad(1470), Rad(0), Rad(3000), Rad(1300), Num(10)>>

Preset(key) ==
    CASE key = "1" -> <<Num(9000), Rad(1470), Rad(0), Rad(1300), Rad(3000), Num(10)>>
      [] key = "2" -> <<Num(9000), Rad(1470), Rad(0), Rad(1564), Rad(-3000), Num(10)>>
      [] key = "3" -> <<Num(7000), Rad(1570), Rad(0), Rad(1540), Rad(-2960), Num(10)>>
      [] key = "4" -> <<Num(7000), Rad(1570), Rad(0), Rad(1328), Rad(-3044), Num(10)>>
      [] key = "5" -> <<Num(9000), Rad(1390), Rad(0), Rad(1200), Rad(700), Num(10)>>
      [] key = "6" -> <<Num(9000), Rad(1500), Rad(0), Rad(1628), Rad(1050), Num(200)>>
      [] key = "7" -> <<Num(7000), Rad(1430), Rad(0), Rad(1570), Rad(1340), Num(40)>>
      [] key = "8" -> <<Num(2700000), Rad(810), Rad(0), Rad(1570), Rad(2000), Num(10)>>
      [] key = "9" -> <<Num(12000000), Rad(0), Rad(0), Rad(930), Rad(-2000), Num(10)>>

\* The default view init() sets: "same as key 1".
\* Mutant: init() applies the view of key '2'.
DefaultView_KeyTwo == Preset("2")

DefaultView ==
    <<Num(9000), Rad(1470), Rad(0), Rad(1300), Rad(3000), Num(10)>>

(***************************************************************************)
(* init() after its await.                                                 *)
(***************************************************************************)
\* Promise.all fulfilled: loadTextures creates the textures and returns;
\* init() runs setupScene, setupEventListeners, setView and
\* startAnimationLoop, all in one turn of the event loop.
InitResume ==
    /\ pc = "loading"
    /\ AllFulfilled
    /\ textures' = CreateTextures
    /\ windowListeners' = TRUE
    /\ setView(setupScene, DefaultView[1], DefaultView[2], DefaultView[3],
               DefaultView[4], DefaultView[5], DefaultView[6])
    /\ animationLoop' = TRUE
    /\ pc' = "running"
    /\ lastEvent' = [Event("init") EXCEPT !.replaced = <<<<viewVars, sunVars>>>>]
    /\ UNCHANGED <<extensions, loads, pointerVars>>

\* Promise.all rejected: the await in loadTextures throws, init() ends with
\* its promise rejected and nothing after the await runs.
InitAbort ==
    /\ pc = "loading"
    /\ SomeRejected
    /\ pc' = "failed"
    /\ lastEvent' = [Event("init") EXCEPT !.threw = TRUE]
    /\ UNCHANGED <<extensions, loads, textures, material, camera,
                   windowListeners, animationLoop, sunVars, viewVars,
                   pointerVars, historyVars>>

(***************************************************************************)
(* Pointer handlers (registered by setupControls, before the await).       *)
(***************************************************************************)
\* Mutant: the modifier is ignored.
DragTarget_IgnoresCtrl(ctrlKey) == "camera"

DragTarget(ctrlKey) == IF ctrlKey THEN "sun" ELSE "camera"

onMouseDown(offsetX, offsetY, ctrlKey) ==
    /\ ~MicrotaskPending
    /\ previousMouseX' = offsetX
    /\ previousMouseY' = offsetY
    /\ drag' = DragTarget(ctrlKey)
    /\ lastEvent' = [PointerEvent("mousedown", offsetX, offsetY)
                       EXCEPT !.ctrlKey = ctrlKey]
    /\ UNCHANGED <<sceneVars, material, camera, sunVars, viewVars, historyVars>>

\* A pointer displacement in pixels as an angle: pixels / kScale radians.
Scaled(pixels) == (pixels * kMicro) \div kScale

\* Mutant: the sun's zenith is clamped from below only.
ClampSunZenith_NoUpperBound(angle) == Max(0, angle)

ClampSunZenith(angle) == Max(0, Min(PI, angle))

\* Mutant: the view's zenith is clamped to the sun's range.
ClampViewZenith_SunRange(angle) == Max(0, Min(PI, angle))

ClampViewZenith(angle) == Max(0, Min(HALF_PI, angle))

\* onMouseMove with drag === 'sun'.  With no material yet the write to
\* material.uniforms throws a TypeError after the angles were updated: the
\* handler ends there and the recorded pointer position stays.
MoveSun(mouseX, mouseY) ==
    LET zenith == ClampSunZenith(sunZenithAngleRadians
                                   - Scaled(previousMouseY - mouseY))
        azimuth == sunAzimuthAngleRadians + Scaled(previousMouseX - mouseX)
    IN  /\ sunZenithAngleRadians' = zenith
        /\ sunAzimuthAngleRadians' = azimuth
        /\ IF material = <<>>
             THEN /\ lastEvent' = [PointerEvent("mousemove", mouseX, mouseY)
                                     EXCEPT !.threw = TRUE]
                  /\ UNCHANGED <<material, previousMouseX, previousMouseY>>
             ELSE /\ material' = <<[material[1] EXCEPT
                         !.sun_direction = SunDirection(zenith, azimuth)]>>
                  /\ previousMouseX' = mouseX
                  /\ previousMouseY' = mouseY
                  /\ lastEvent' = PointerEvent("mousemove", mouseX, mouseY)
        /\ UNCHANGED <<sceneVars, camera, viewVars, drag, historyVars>>

\* Mutant: a camera move also writes the clamped view zenith to the sun.
MoveCamera_WritesSunZenith(mouseX, mouseY) ==
    LET zenith == ClampViewZenith(viewZenithAngleRadians
                                    + Scaled(previousMouseY - mouseY))
        azimuth == viewAzimuthAngleRadians + Scaled(previousMouseX - mouseX)
    IN  /\ viewZenithAngleRadians' = zenith
        /\ viewAzimuthAngleRadians' = azimuth
        /\ sunZenithAngleRadians' = zenith
        /\ camera' = PlaceCamera(viewDistanceMeters, zenith, azimuth)
        /\ previousMouseX' = mouseX
        /\ previousMouseY' = mouseY
        /\ lastEvent' = PointerEvent("mousemove", mouseX, mouseY)
        /\ UNCHANGED <<sceneVars, material, sunAzimuthAngleRadians,
                       viewDistanceMeters, drag, historyVars>>

\* onMouseMove with drag === 'camera'.
MoveCamera(mouseX, mouseY) ==
    LET zenith == ClampViewZenith(viewZenithAngleRadians
                                    + Scaled(previousMouseY - mouseY))
        azimuth == viewAzimuthAngleRadians + Scaled(previousMouseX - mouseX)
    IN  /\ viewZenithAngleRadians' = zenith
        /\ viewAzimuthAngleRadians' = azimuth
        /\ camera' = PlaceCamera(viewDistanceMeters, zenith, azimuth)
        /\ previousMouseX' = mouseX
        /\ previousMouseY' = mouseY
        /\ lastEvent' = PointerEvent("mousemove", mouseX, mouseY)
        /\ UNCHANGED <<sceneVars, material, sunVars, viewDistanceMeters, drag,
                       historyVars>>

onMouseMove(mouseX, mouseY) ==
    /\ ~MicrotaskPending
    /\ CASE drag = "sun" -> MoveSun(mouseX, mouseY)
         [] drag = "camera" -> MoveCamera(mouseX, mouseY)
         [] OTHER ->
              /\ lastEvent' = PointerEvent("mousemove", mouseX, mouseY)
              /\ UNCHANGED <<sceneVars, material, camera, sunVars, viewVars,
                             pointerVars, historyVars>>

onMouseUp ==
    /\ ~MicrotaskPending
    /\ drag' = "undefined"
    /\ lastEvent' = Event("mouseup")
    /\ UNCHANGED <<sceneVars, material, camera, sunVars, viewVars,
                   previousMouseX, previousMouseY, historyVars>>

(***************************************************************************)
(* Wheel handler.                                                          *)
(***************************************************************************)
\* Mutant: every wheel event zooms out.
WheelFactor_AlwaysOut(deltaY) == Frac(105, 100)

\* Mutant: a wheel event with no vertical component does not zoom.
WheelFactor_ZeroIsNoop(deltaY) ==
    IF deltaY > 0 THEN Frac(105, 100)
    ELSE IF deltaY < 0 THEN QDiv(Num(1), Frac(105, 100)) ELSE Num(1)

\* event.deltaY > 0 ? 1.05 : 1 / 1.05
WheelFactor(deltaY) ==
    IF deltaY > 0 THEN Frac(105, 100) ELSE QDiv(Num(1), Frac(105, 100))

WheelDirection(deltaY) == IF deltaY > 0 THEN 1 ELSE -1

\* History: the run of same-direction wheel events the new event extends or
\* starts, in front of the run before it.
ExtendRuns(runs, direction, distanceBefore) ==
    IF runs[1].dir = direction
      THEN <<[runs[1] EXCEPT !.n = @ + 1]>> \o Tail(runs)
      ELSE <<[dir |-> direction, n |-> 1, from |-> distanceBefore], runs[1]>>

onMouseWheel(deltaY) ==
    LET viewDistance == QMul(viewDistanceMeters, WheelFactor(deltaY))
    IN  /\ ~MicrotaskPending
        /\ viewDistanceMeters' = viewDistance
        /\ camera' = PlaceCamera(viewDistance, viewZenithAngleRadians,
                                 viewAzimuthAngleRadians)
        /\ lastEvent' = [Event("wheel") EXCEPT !.deltaY = deltaY,
                                               !.defaultPrevented = TRUE]
        /\ zoomSteps' = zoomSteps + WheelDirection(deltaY)
        /\ wheelRuns' = ExtendRuns(wheelRuns, WheelDirection(deltaY),
                                   viewDistanceMeters)
        /\ UNCHANGED <<sceneVars, material, sunVars, viewZenithAngleRadians,
                       viewAzimuthAngleRadians, pointerVars, exposureSteps>>

(***************************************************************************)
(* Window handlers (registered by setupEventListeners, after the await).   *)
(***************************************************************************)
\* The '+' and '-' branches of onKeyPress: exposure *= 1.1, exposure /= 1.1.
IncreaseExposure(exposure) == QMul(exposure, Frac(11, 10))

\* Mutant: '-' multiplies, like '+'.
DecreaseExposure_Multiplies(exposure) == QMul(exposure, Frac(11, 10))

DecreaseExposure(exposure) == QDiv(exposure, Frac(11, 10))

onKeyPress(key) ==
    /\ ~MicrotaskPending
    /\ windowListeners
    /\ lastEvent' = [Event("keypress") EXCEPT !.key = key]
    /\ CASE key = "+" ->
              /\ material' = <<[material[1] EXCEPT
                                  !.exposure = IncreaseExposure(@)]>>
              /\ exposureSteps' = exposureSteps + 1
              /\ UNCHANGED <<camera, sunVars, viewVars, zoomSteps, wheelRuns>>
         [] key = "-" ->
              /\ material' = <<[material[1] EXCEPT
                                  !.exposure = DecreaseExposure(@)]>>
              /\ exposureSteps' = exposureSteps - 1
              /\ UNCHANGED <<camera, sunVars, viewVars, zoomSteps, wheelRuns>>
         [] key \in PresetKeys ->
              setView(material, Preset(key)[1], Preset(key)[2], Preset(key)[3],
                      Preset(key)[4], Preset(key)[5], Preset(key)[6])
         [] OTHER ->
              \* 'h' toggles the help element of the page, any other key
              \* does nothing: no field of the demo changes.
              UNCHANGED <<material, camera, sunVars, viewVars, historyVars>>
    /\ UNCHANGED <<sceneVars, pointerVars>>

\* onWindowResize changes the renderer's size and the camera's aspect and
\* projection matrix, none of which the handlers or render state read.
onWindowResize ==
    /\ ~MicrotaskPending
    /\ windowListeners
    /\ lastEvent' = Event("resize")
    /\ UNCHANGED <<sceneVars, material, camera, sunVars, viewVars,
                   pointerVars, historyVars>>

(***************************************************************************)
(* The animation loop.                                                     *)
(***************************************************************************)
\* Mutant: the frame is drawn from the camera as setupCamera left it.
SceneAsDrawn_InitialCamera == [camera |-> setupCamera, uniforms |-> material[1]]

\* What renderer.render(scene, camera) reads to draw the quad: the camera
\* and the material's uniforms as they are when it is called.
SceneAsDrawn == [camera |-> camera, uniforms |-> material[1]]

\* render(): one renderer.render call.
render ==
    /\ ~MicrotaskPending
    /\ animationLoop
    /\ lastEvent' = [Event("frame") EXCEPT !.draws = 1,
                                           !.drawn = <<SceneAsDrawn>>]
    /\ UNCHANGED <<sceneVars, material, camera, sunVars, viewVars,
                   pointerVars, historyVars>>

(***************************************************************************)
(* Inputs, bounds and the specifications.                                  *)
(***************************************************************************)
\* Azimuths, the view distance and the exposure are unbounded in the
\* program.  The model delivers a pointer move, a wheel event or a '+'/'-'
\* key only while the azimuth stays within MaxAzimuth radians, the distance
\* within maxZoom wheel steps of the value setView or setupControls gave it,
\* and the exposure within maxExposure key presses of the value setView
\* gave it.
MoveInBounds(mouseX) ==
    CASE drag = "sun" ->
           Abs(sunAzimuthAngleRadians + Scaled(previousMouseX - mouseX))
             <= MaxAzimuth * kMicro
      [] drag = "camera" ->
           Abs(viewAzimuthAngleRadians + Scaled(previousMouseX - mouseX))
             <= MaxAzimuth * kMicro
      [] OTHER -> TRUE

WheelInBounds(deltaY, maxZoom) ==
    Abs(zoomSteps + WheelDirection(deltaY)) <= maxZoom

KeyInBounds(key, maxExposure) ==
    CASE key = "+" -> exposureSteps + 1 <= maxExposure
      [] key = "-" -> exposureSteps - 1 >= -maxExposure
      [] OTHER -> TRUE

\* The program's steps, with the inputs of its events drawn from the sets
\* and held within the bounds that the record `in` gives.
Step(in) ==
    \/ \E f \in Files :
         \E ok \in in.oks[f], n \in in.lengths[f] : FetchSettle(f, ok, n)
    \/ InitResume
    \/ InitAbort
    \/ \E x \in in.xs, y \in in.ys, c \in in.ctrlKeys : onMouseDown(x, y, c)
    \/ \E x \in in.xs, y \in in.ys : MoveInBounds(x) /\ onMouseMove(x, y)
    \/ onMouseUp
    \/ \E dy \in in.deltaYs :
         WheelInBounds(dy, in.maxZoom) /\ onMouseWheel(dy)
    \/ \E k \in in.keys : KeyInBounds(k, in.maxExposure) /\ onKeyPress(k)
    \/ onWindowResize
    \/ render

\* Byte lengths a response may have: the expected one, one float short, and
\* one that is not a whole number of floats.
ExactByteLengths ==
    [f \in Files |-> {ExpectedElements(f) * BYTES_PER_ELEMENT}]

ByteLengths ==
    [f \in Files |->
       {ExpectedElements(f) * BYTES_PER_ELEMENT,
        (ExpectedElements(f) - 1) * BYTES_PER_ELEMENT,
        (ExpectedElements(f) + 1) * BYTES_PER_ELEMENT,
        ExpectedElements(f) * BYTES_PER_ELEMENT - 2}]

\* Any fetch may fail; only the first may fail.
MayFail == [f \in Files |-> BOOLEAN]

FirstMayFail ==
    [f \in Files |-> IF f = "transmittance" THEN BOOLEAN ELSE {TRUE}]

\* Pointer positions: a horizontal step of 3 radians, a vertical step of 3.2
\* radians (more than the whole range of either zenith angle).
MouseXs == {0, 1500}

MouseYs == {0, 1600}

Keys == PresetKeys \cup {"h", "+", "-"}

\* Vertical gestures on both targets, all keys.
Gestures ==
    [lengths |-> ExactByteLengths, oks |-> MayFail, xs |-> {0}, ys |-> MouseYs,
     ctrlKeys |-> BOOLEAN, deltaYs |-> {100}, keys |-> Keys,
     maxZoom |-> MaxZoom, maxExposure |-> MaxExposureSteps]

Next == Step(Gestures)

Spec == Init /\ [][Next]_vars

\* Wheel events in both directions, deeper; camera drags; two presets.
Zooming ==
    [lengths |-> ExactByteLengths, oks |-> FirstMayFail, xs |-> {0},
     ys |-> MouseYs, ctrlKeys |-> {FALSE}, deltaYs |-> {-100, 0, 100},
     keys |-> {"1", "8", "+"},
     maxZoom |-> MaxWheelSteps, maxExposure |-> MaxExposureSteps]

NextZoom == Step(Zooming)

SpecZoom == Init /\ [][NextZoom]_vars

\* Responses of every length; sun drags; one preset.
Loading ==
    [lengths |-> ByteLengths, oks |-> MayFail, xs |-> {0}, ys |-> MouseYs,
     ctrlKeys |-> {TRUE}, deltaYs |-> {100}, keys |-> {"1", "+"},
     maxZoom |-> MaxZoom, maxExposure |-> MaxExposureSteps]

NextLoad == Step(Loading)

SpecLoad == Start(Contexts) /\ [][NextLoad]_vars

\* Horizontal gestures on both targets; one preset.
Dragging ==
    [lengths |-> ExactByteLengths, oks |-> FirstMayFail, xs |-> MouseXs,
     ys |-> {0}, ctrlKeys |-> BOOLEAN, deltaYs |-> {100}, keys |-> {"1", "+"},
     maxZoom |-> MaxZoom, maxExposure |-> MaxExposureSteps]

NextDrag == Step(Dragging)

SpecDrag == Init /\ [][NextDrag]_vars

(***************************************************************************)
(* Properties.                                                             *)
(***************************************************************************)
DragTargets == {"undefined", "camera", "sun"}

PointerEvents == {"mousedown", "mousemove", "mouseup"}

\* In a step that changes the state, lastEvent' names the callback that ran.

\* C1 as stated: the drag target is one of idle ("undefined"), camera, sun;
\* it changes only by a pointer-down in idle (to sun with ctrl, to camera
\* without) or by a pointer-up (to idle); a pointer-move never changes it
\* and a pointer-up always leaves it idle.
C1_ChangesOnlyFromIdle ==
    [][/\ drag' \in DragTargets
       /\ drag' # drag =>
            \/ /\ drag = "undefined"
               /\ lastEvent'.type = "mousedown"
               /\ drag' = IF lastEvent'.ctrlKey THEN "sun" ELSE "camera"
            \/ /\ lastEvent'.type = "mouseup"
               /\ drag' = "undefined"
       /\ lastEvent'.type = "mousemove" => drag' = drag
       /\ lastEvent'.type = "mouseup" => drag' = "undefined"]_vars

\* C1 amended: the drag target is one of idle, camera, sun; a pointer-down
\* in ANY state (idle or already dragging) sets it to sun with ctrl and to
\* camera without; a pointer-move never changes it; a pointer-up always
\* sets it to idle; no other event changes it.
C1_DragMachine ==
    [][/\ drag' \in DragTargets
       /\ lastEvent'.type = "mousedown" =>
            drag' = IF lastEvent'.ctrlKey THEN "sun" ELSE "camera"
       /\ lastEvent'.type = "mousemove" => drag' = drag
       /\ lastEvent'.type = "mouseup" => drag' = "undefined"
       /\ lastEvent'.type \notin PointerEvents => drag' = drag]_vars

\* A pointer-up has ended a gesture that began away from the origin.
C1_IdleAfterPointerUp ==
    /\ lastEvent.type = "mouseup"
    /\ drag = "undefined"
    /\ previousMouseY # 0

\* C2: in every reachable state the view zenith angle is within [0, pi/2].
C2_ViewZenithInRange ==
    /\ 0 <= viewZenithAngleRadians
    /\ viewZenithAngleRadians <= HALF_PI

\* A camera drag of 1600 pixels (3.2 radians, twice the range) has just
\* been handled and left the view zenith at the end of its range.
C2_ClampedByOneMove ==
    /\ lastEvent.type = "mousemove"
    /\ drag = "camera"
    /\ viewZenithAngleRadians = HALF_PI
    /\ pc = "running"

\* C3: in every reachable state the sun zenith angle is within [0, pi].
C3_SunZenithInRange ==
    /\ 0 <= sunZenithAngleRadians
    /\ sunZenithAngleRadians <= PI

\* A sun drag of 1600 pixels (3.2 radians, more than the range) has just
\* been handled and left the sun zenith at the end of its range.
C3_ClampedByOneMove ==
    /\ lastEvent.type = "mousemove"
    /\ drag = "sun"
    /\ sunZenithAngleRadians = PI
    /\ pc = "running"

\* The six values a preset writes, as they stand in the state.
ViewState ==
    <<viewDistanceMeters, viewZenithAngleRadians, viewAzimuthAngleRadians,
      sunZenithAngleRadians, sunAzimuthAngleRadians, material[1].exposure>>

\* C5: right after a preset key the six values are that key's literal
\* tuple, whatever they were before; for key '1' they are 9000, 1.47, 0,
\* 1.3, 3 and 10.
C5_PresetSetsLiteralTuple ==
    (lastEvent.type = "keypress" /\ lastEvent.key \in PresetKeys) =>
        /\ ViewState = Preset(lastEvent.key)
        /\ lastEvent.key = "1" =>
             ViewState = <<Num(9000), 1470000, 0, 1300000, 3000000, Num(10)>>
        /\ lastEvent.key = "9" =>
             ViewState = <<Num(12000000), 0, 0, 930000, -2000000, Num(10)>>

\* Key '1' has just been pressed while a gesture was in progress, after
\* the state had been moved away from every preset.
C5_PresetOneDuringDrag ==
    /\ lastEvent.type = "keypress"
    /\ lastEvent.key = "1"
    /\ drag = "sun"
    /\ previousMouseY # 0

\* C8: the animation loop is registered only once init() has completed
\* (three loads fulfilled, textures, material and listeners in place), and
\* the turn that registers it leaves the default view applied; a frame is
\* drawn only by the registered callback, which makes one draw call from the
\* camera and uniforms as they are at that moment.
C8_FramesAfterInitDrawLiveState ==
    /\ animationLoop =>
         /\ pc = "running"
         /\ \A f \in Files : loads[f].state = "fulfilled"
         /\ DOMAIN textures = Files
         /\ material # <<>>
         /\ windowListeners
    /\ (lastEvent.type = "init" /\ ~lastEvent.threw) =>
         /\ animationLoop
         /\ ViewState = <<Num(9000), 1470000, 0, 1300000, 3000000, Num(10)>>
         /\ camera.position = Spherical(Num(9), 1470000, 0)
         /\ material[1].sun_direction = Spherical(Num(1), 1300000, 3000000)
    /\ lastEvent.type = "frame" =>
         /\ animationLoop
         /\ lastEvent.draws = 1
         /\ lastEvent.drawn = <<[camera |-> camera, uniforms |-> material[1]]>>

\* A frame has just been drawn after input events moved the camera, the sun
\* and the exposure away from the default view.
C8_FrameAfterInput ==
    /\ lastEvent.type = "frame"
    /\ viewZenithAngleRadians = 0
    /\ sunZenithAngleRadians = PI
    /\ material[1].exposure = Num(11)
    /\ lastEvent.drawn[1].camera.position = Spherical(Num(9), 0, 0)
    /\ lastEvent.drawn[1].uniforms.exposure = Num(11)

\* The callback that ran last set the camera position.
PositionSet ==
    \/ lastEvent.type = "wheel"
    \/ lastEvent.type = "mousemove" /\ drag = "camera"
    \/ lastEvent.type = "keypress" /\ lastEvent.key \in PresetKeys
    \/ lastEvent.type = "init" /\ ~lastEvent.threw

\* C9 as stated: after every operation that sets the camera position its
\* squared norm is the square of the view triple's distance (the view
\* distance, in meters) and the camera looks at the origin from there.
C9_SquaredNormIsDistanceSquared ==
    PositionSet =>
        /\ SquaredNorm(camera.position)
             = QMul(viewDistanceMeters, viewDistanceMeters)
        /\ camera.target = Vector3(Num(0), Num(0), Num(0))
        /\ camera.lookedFrom = camera.position

\* C9 amended: after every operation that sets the camera position its
\* squared norm is the square of (view distance / 1000), the distance in
\* the scene's length unit of 1000 m, and the camera looks at the origin
\* from there.
C9_SquaredNormIsScaledDistanceSquared ==
    PositionSet =>
        /\ SquaredNorm(camera.position)
             = QDiv(QMul(viewDistanceMeters, viewDistanceMeters),
                    Num(1000 * 1000))
        /\ camera.target = Vector3(Num(0), Num(0), Num(0))
        /\ camera.lookedFrom = camera.position

\* A camera drag has just been handled after a zoom-out from 9000 m: the
\* camera is 9.45 units from the origin, squared norm 89.3025.
C9_DragAfterZoom ==
    /\ lastEvent.type = "mousemove"
    /\ drag = "camera"
    /\ viewDistanceMeters = Num(9450)
    /\ viewZenithAngleRadians = HALF_PI
    /\ SquaredNorm(camera.position) = Frac(893025, 10000)

\* The exposure uniform, if the material exists.
Exposure(mat) == IF mat = <<>> THEN <<>> ELSE <<mat[1].exposure>>

SunDirectionUniform(mat) == IF mat = <<>> THEN <<>> ELSE <<mat[1].sun_direction>>

\* C10: the exposure is strictly positive whenever it exists; a pointer or
\* wheel event never changes it; once it exists only a key press changes
\* it; '+' multiplies it by 1.1 and '-' divides it by 1.1, changing nothing
\* else; a preset key sets it to the preset's literal value.
C10_ExposureOnlyByKeys ==
    [][/\ material' # <<>> => material'[1].exposure.s = 1
       /\ lastEvent'.type \in PointerEvents \cup {"wheel"} =>
            Exposure(material') = Exposure(material)
       /\ (material # <<>> /\ Exposure(material') # Exposure(material)) =>
            lastEvent'.type = "keypress"
       /\ (lastEvent'.type = "keypress" /\ lastEvent'.key = "+") =>
            /\ material'[1].exposure = QMul(material[1].exposure, Frac(11, 10))
            /\ SunDirectionUniform(material') = SunDirectionUniform(material)
            /\ UNCHANGED <<sceneVars, camera, sunVars, viewVars, pointerVars>>
       /\ (lastEvent'.type = "keypress" /\ lastEvent'.key = "-") =>
            /\ material'[1].exposure = QDiv(material[1].exposure, Frac(11, 10))
            /\ SunDirectionUniform(material') = SunDirectionUniform(material)
            /\ UNCHANGED <<sceneVars, camera, sunVars, viewVars, pointerVars>>
       /\ (lastEvent'.type = "keypress" /\ lastEvent'.key \in PresetKeys) =>
            material'[1].exposure = Preset(lastEvent'.key)[6]
       /\ (lastEvent'.type = "keypress" /\ lastEvent'.key = "6") =>
            material'[1].exposure = Num(200)]_vars

\* '-' has just been pressed on the exposure 200 of preset '6', during a
\* drag: the exposure is 200 / 1.1 = 2000 / 11.
C10_DecreasedFromPreset ==
    /\ lastEvent.type = "keypress"
    /\ lastEvent.key = "-"
    /\ drag = "camera"
    /\ material[1].exposure = Frac(2000, 11)

\* The factor N wheel events of one direction apply: 1.05^N zooming out
\* (direction 1), (1/1.05)^N zooming in (direction -1); 1.05 is 21/20.
RunFactor(direction, n) ==
    IF direction = 1 THEN QPow(Frac(21, 20), n) ELSE QPow(Frac(20, 21), n)

\* C4: after N wheel events of one direction (N >= 0), with no wheel event
\* of the other direction and no preset between them, the view distance is
\* the distance d before the first of them times 1.05^N (deltaY > 0) or
\* (1/1.05)^N (deltaY < 0), whatever pointer and exposure events came
\* between or after them; after one zoom-out followed by one zoom-in the
\* distance is d again.
C4_WheelScalesDistance ==
    /\ viewDistanceMeters
         = QMul(wheelRuns[1].from, RunFactor(wheelRuns[1].dir, wheelRuns[1].n))
    /\ (/\ Len(wheelRuns) = 2
        /\ wheelRuns[1].dir = -1 /\ wheelRuns[1].n = 1
        /\ wheelRuns[2].dir = 1 /\ wheelRuns[2].n = 1) =>
         viewDistanceMeters = wheelRuns[2].from

\* Preset '8' (2700000 m) was zoomed out twice, with a camera drag and a
\* '+' key since the preset: 2700000 * 1.05^2 = 2976750.
C4_TwoZoomOutsAroundDrag ==
    /\ wheelRuns[1].dir = 1
    /\ wheelRuns[1].n = 2
    /\ wheelRuns[1].from = Num(2700000)
    /\ viewDistanceMeters = Num(2976750)
    /\ viewZenithAngleRadians = HALF_PI
    /\ exposureSteps = 1

\* C6: once a load has failed there is no scene (no textures, no
\* material), no window listener and no animation loop, and no frame is
\* drawn; and whenever any of these exists all three loads have completed.
C6_NoSceneUnlessAllLoaded ==
    /\ (\E f \in Files : loads[f].state = "rejected") =>
         /\ textures = <<>>
         /\ material = <<>>
         /\ ~windowListeners
         /\ ~animationLoop
         /\ pc # "running"
         /\ lastEvent.type \notin {"frame", "keypress", "resize"}
    /\ (textures # <<>> \/ material # <<>> \/ windowListeners \/ animationLoop) =>
         \A f \in Files : loads[f].state = "fulfilled"

\* Two loads completed, then the third failed and init() ended; pointer
\* events are still being handled.
C6_LastLoadFailed ==
    /\ pc = "failed"
    /\ loads["transmittance"].state = "fulfilled"
    /\ loads["scattering"].state = "fulfilled"
    /\ loads["irradiance"].state = "rejected"
    /\ lastEvent.type = "mousemove"

\* The element counts W x H x (depth or 1) x 4 of the three assets.
AssetElements ==
    [transmittance |-> 256 * 64 * 4, scattering |-> 256 * 128 * 32 * 4,
     irradiance |-> 64 * 16 * 4]

\* C7 as stated: a load is fulfilled only with an array of exactly
\* W x H x (depth or 1) x 4 elements (a buffer of any other byte length is
\* rejected and aborts startup), so every texture built holds exactly that
\* many.
C7_OnlyExactBuffersAccepted ==
    /\ \A f \in Files :
         loads[f].state = "fulfilled" => loads[f].elements = AssetElements[f]
    /\ textures # <<>> =>
         \A f \in Files : textures[f].elements = AssetElements[f]
    /\ pc = "running" =>
         \A f \in Files : loads[f].elements = AssetElements[f]

\* C11 as stated: each of the three textures has the higher-precision
\* format RGBA32F when the context supports linear filtering of float
\* textures and the lower-precision RGBA16F otherwise, so the three formats
\* are equal and determined by the capability alone.
C11_FormatFollowsCapability ==
    textures # <<>> =>
        /\ \A f \in Files :
             textures[f].internalFormat
               = IF OES_texture_float_linear \in extensions
                   THEN "RGBA32F" ELSE "RGBA16F"
        /\ \A f, g \in Files :
             textures[f].internalFormat = textures[g].internalFormat

\* C12 as stated: no pointer or wheel handler throws on a missing material;
\* every one of them runs to completion, whenever it is called.
C12_HandlersNeverReadNullMaterial ==
    lastEvent.type \in PointerEvents \cup {"wheel"} => ~lastEvent.threw

\* C13: a pointer-move while idle changes nothing, the recorded pointer
\* position included; while dragging the camera it leaves the sun angles,
\* the sun_direction uniform, the view distance and the exposure unchanged;
\* while dragging the sun it leaves the view angles, the view distance, the
\* camera and the exposure unchanged; it never changes the drag target.
C13_MoveChangesOnlyActiveTarget ==
    [][lastEvent'.type = "mousemove" =>
         /\ drag' = drag
         /\ drag = "undefined" =>
              UNCHANGED <<sceneVars, material, camera, sunVars, viewVars,
                          pointerVars>>
         /\ drag = "camera" =>
              /\ UNCHANGED <<sunVars, viewDistanceMeters>>
              /\ SunDirectionUniform(material') = SunDirectionUniform(material)
              /\ Exposure(material') = Exposure(material)
         /\ drag = "sun" =>
              /\ UNCHANGED <<viewVars, camera>>
              /\ Exposure(material') = Exposure(material)]_vars

\* A camera move has just turned the camera to the horizon after a sun
\* move had put the sun at the nadir: each kept what the other drag left.
C13_CameraMovedAfterSunMoved ==
    /\ lastEvent.type = "mousemove"
    /\ drag = "camera"
    /\ previousMouseY = 0
    /\ viewZenithAngleRadians = HALF_PI
    /\ sunZenithAngleRadians = PI
    /\ material # <<>>
    /\ material[1].sun_direction = SunDirection(PI, sunAzimuthAngleRadians)
    /\ material[1].exposure = Num(10)

\* C14: once init() has completed, in every state the camera position is
\* the spherical-to-Cartesian conversion of (view distance / 1000, view
\* zenith, view azimuth) and the sun_direction uniform is the unit vector
\* of (sun zenith, sun azimuth): no handler leaves a derived value behind
\* the angle or distance it is derived from.
C14_DerivedStateNeverStale ==
    pc = "running" =>
        /\ camera.position
             = Spherical(QDiv(viewDistanceMeters, Num(1000)),
                         viewZenithAngleRadians, viewAzimuthAngleRadians)
        /\ material # <<>>
        /\ material[1].sun_direction
             = Spherical(Num(1), sunZenithAngleRadians, sunAzimuthAngleRadians)

\* After init(), a zoom-out and then a sun drag to the zenith: the camera
\* is at 9.45 units and the uniform points straight up.
C14_SunDraggedAfterZoom ==
    /\ pc = "running"
    /\ lastEvent.type = "mousemove"
    /\ drag = "sun"
    /\ viewDistanceMeters = Num(9450)
    /\ sunZenithAngleRadians = 0
    /\ camera.position = Spherical(Frac(945, 100), Rad(1470), 0)
    /\ material[1].sun_direction = Spherical(Num(1), 0, sunAzimuthAngleRadians)

\* The azimuth of the target being dragged.
ActiveAzimuth ==
    IF drag = "sun" THEN sunAzimuthAngleRadians ELSE viewAzimuthAngleRadians

\* C15 as stated: a pointer-move during a drag records the move's position
\* and adds (recorded position before - move's position) / 500 to the
\* active target's azimuth.  Then azimuth + recorded x / 500 is the same
\* before and after every move, so from a press at x0 to the last move at
\* xn the azimuth changes by (x0 - xn) / 500 whatever the moves between.
C15_MoveAppliesDisplacementOnce ==
    [][(lastEvent'.type = "mousemove" /\ drag \in {"camera", "sun"}) =>
         /\ previousMouseX' = lastEvent'.offsetX
         /\ previousMouseY' = lastEvent'.offsetY
         /\ ActiveAzimuth' + Scaled(previousMouseX')
              = ActiveAzimuth + Scaled(previousMouseX)]_vars

\* C16: the step in which init() completes leaves the view state at the
\* tuple of key '1' (9000, 1.47, 0, 1.3, 3, 10) with the camera and the
\* sun_direction uniform derived from it, whatever the pointer and wheel
\* events handled during loading had made of it, and leaves the drag target
\* and the recorded pointer position as those events set them.
C16_InitAppliesDefaultView ==
    [][(lastEvent'.type = "init" /\ ~lastEvent'.threw) =>
         /\ ViewState' = <<Num(9000), 1470000, 0, 1300000, 3000000, Num(10)>>
         /\ ViewState' = Preset("1")
         /\ camera' = PlaceCamera(Num(9000), 1470000, 0)
         /\ material'[1].sun_direction = SunDirection(1300000, 3000000)
         /\ lastEvent'.replaced = <<<<viewVars, sunVars>>>>
         /\ UNCHANGED pointerVars]_vars

\* init() has just completed during a camera drag that, while the assets
\* were loading, had zoomed out to 9450 m and turned the camera to zenith
\* 0: the view is the default one again and the drag is still on.
C16_EarlyDragOverwritten ==
    /\ lastEvent.type = "init"
    /\ ~lastEvent.threw
    /\ lastEvent.replaced[1][1] = <<0, 0, Num(9450)>>
    /\ viewZenithAngleRadians = Rad(1470)
    /\ viewDistanceMeters = Num(9000)
    /\ drag = "camera"
    /\ previousMouseY = 1600

\* C17: the view distance is strictly positive in every state; a wheel
\* event with deltaY > 0 multiplies it by 1.05 and one with any other
\* deltaY, 0 included, divides it by 1.05, so every wheel event changes it;
\* and every wheel event has its default action prevented.
C17_EveryWheelEventZooms ==
    [][/\ viewDistanceMeters.s = 1
       /\ viewDistanceMeters'.s = 1
       /\ lastEvent'.type = "wheel" =>
            /\ lastEvent'.defaultPrevented
            /\ lastEvent'.deltaY > 0 =>
                 viewDistanceMeters' = QMul(viewDistanceMeters, Frac(21, 20))
            /\ lastEvent'.deltaY <= 0 =>
                 QMul(viewDistanceMeters', Frac(21, 20)) = viewDistanceMeters
            /\ viewDistanceMeters' # viewDistanceMeters]_vars

\* A wheel event with deltaY = 0 has just zoomed in from 9000 m to
\* 9000 / 1.05 = 60000 / 7 m.
C17_HorizontalScrollZoomedIn ==
    /\ lastEvent.type = "wheel"
    /\ lastEvent.deltaY = 0
    /\ lastEvent.defaultPrevented
    /\ viewDistanceMeters = Frac(60000, 7)
    /\ zoomSteps = -1

=============================================================================
